---------------------------- MODULE Spec2Model ----------------------------
(* A model of the revolver crate: the Cartesian-product iterator of        *)
(* src/util.rs (itertools) and the dictionary-of-keys sparse matrix of     *)
(* src/sparse.rs (dok).  Two specifications share the module:              *)
(*   Spec     - the iterator: built from two finite sequences, then        *)
(*              repeated calls of next;                                    *)
(*   SpecDOK  - the matrix: one of the constructors, then transposed and   *)
(*              index in any order.                                        *)
EXTENDS Integers, Sequences, FiniteSets, TLC

-----------------------------------------------------------------------------
(* Bounds of the model.                                                    *)

\* longest input sequence handed to cartesian_product
MaxLen == 3
\* items of the input sequences are drawn from 0..MaxItem
MaxItem == 1
\* largest row or column count of a matrix; coordinates range over 0..MaxDim,
\* so every shape has coordinates outside it
MaxDim == 2
\* most entries in a mapping handed to DOKMatrix::new
MaxEntries == 1
\* most consecutive calls of transposed on one constructed matrix
MaxTransposes == 2

-----------------------------------------------------------------------------
(* Option<T>: None is the empty sequence, Some(x) the one-element sequence.*)

None == <<>>
Some(x) == <<x>>

(* A finite iterator is the sequence of the items it has not produced yet. *)
(* Iterator::next on it: Some(head) and the tail, or None and the          *)
(* exhausted iterator left exhausted (ranges and slices are fused).        *)
IterNext(it) ==
    IF it = <<>> THEN [item |-> None, iter |-> it]
                 ELSE [item |-> Some(Head(it)), iter |-> Tail(it)]

VARIABLES
    \* ---- CartesianProduct<I, J> (src/util.rs:5-12)
    first,          \* the outer iterator
    saved_first,    \* Option: the current outer item
    second,         \* the live inner iterator
    second_clone,   \* the pristine copy of the inner iterator
    \* ---- what the caller observes of the iterator
    in1, in2,       \* the two sequences the product was built from
    called,         \* whether next has been called at all
    ret,            \* what the last call of next returned (None before any)
    yielded,        \* the pairs returned so far, in order
    ops,            \* the iterator operations the last call of next performed
    \* ---- DOKMatrix<f64> (src/sparse.rs:39-45) and its caller
    ctor,           \* the constructor call that built the matrix
    mat,            \* the matrix in hand: [nrows, ncols, elems]
    orig,           \* the matrix as its constructor returned it
    recv,           \* the receiver of the last call, as it is after the call
    ntransposed,    \* calls of transposed since the constructor
    last,           \* the last operation called
    idx             \* the coordinate and the outcome of the last index access

cpvars == <<first, saved_first, second, second_clone, in1, in2, called, ret, yielded, ops>>

dokvars == <<ctor, mat, orig, recv, ntransposed, last, idx>>

vars == <<cpvars, dokvars>>

Items == 0..MaxItem

RECURSIVE SeqsUpTo(_, _)
SeqsUpTo(S, n) ==
    IF n = 0 THEN {<<>>}
    ELSE LET shorter == SeqsUpTo(S, n - 1)
         IN  shorter \cup {Append(s, x) : s \in {t \in shorter : Len(t) = n - 1}, x \in S}

Inputs == SeqsUpTo(Items, MaxLen)

(* cartesian_product(i, j): takes the first outer item eagerly and keeps   *)
(* the inner iterator twice.                                               *)
cartesian_product(i, j) ==
    LET n == IterNext(i)
    IN  [saved_first  |-> n.item,
         first        |-> n.iter,
         second_clone |-> j,
         second       |-> j]

self_cp == [first |-> first, saved_first |-> saved_first,
            second |-> second, second_clone |-> second_clone]

\* Faulty variant of Restart: the outer iterator is never advanced.
Restart_KeepsOuterItem(self) ==
    LET s2 == IterNext(self.second_clone)
    IN  [self |-> [self EXCEPT !.second = s2.iter],
         item |-> s2.item,
         ops  |-> IF s2.item # None THEN <<"reset", "second.next", "first.next">>
                                    ELSE <<"reset", "second.next">>]

\* Faulty variant of Restart: restarts, advances the outer iterator and
\* returns None instead of taking the first inner item.
Restart_ReturnsNone(self) ==
    LET f == IterNext(self.first)
    IN  [self |-> [self EXCEPT !.second = self.second_clone,
                               !.saved_first = f.item,
                               !.first = f.iter],
         item |-> None,
         ops  |-> <<"reset", "first.next">>]

\* Faulty variant of Restart: advances the outer iterator before looking at
\* the restarted inner iterator.
Restart_OuterFirst(self) ==
    LET s2 == IterNext(self.second_clone)
        f  == IterNext(self.first)
    IN  [self |-> [self EXCEPT !.second = s2.iter,
                               !.saved_first = f.item,
                               !.first = f.iter],
         item |-> s2.item,
         ops  |-> <<"reset", "first.next", "second.next">>]

(* The arm of next taken when the live inner iterator is exhausted         *)
(* (src/util.rs:39-49): restart the inner iterator from the pristine copy  *)
(* and advance it; only if it gives an item is the outer iterator advanced.*)
(* item = None stands for the early `return None`.                         *)
Restart(self) ==
    LET s2 == IterNext(self.second_clone)
    IN  IF s2.item # None
        THEN LET f == IterNext(self.first)
             IN  [self |-> [self EXCEPT !.second = s2.iter,
                                        !.saved_first = f.item,
                                        !.first = f.iter],
                  item |-> s2.item,
                  ops  |-> <<"reset", "second.next", "first.next">>]
        ELSE [self |-> [self EXCEPT !.second = s2.iter],
              item |-> None,
              ops  |-> <<"reset", "second.next">>]

\* Faulty variant of Pair: saved_first is paired without being matched.
Pair_Unmatched(saved, second_item) == Some(<<saved, second_item>>)

(* The final match of next (src/util.rs:51-56): the pair of the current    *)
(* outer item and the inner item, or None when there is no outer item.     *)

Pair(saved, second_item) ==
    IF saved # None THEN Some(<<saved[1], second_item>>) ELSE None

(* CartesianProduct::next.  The result is the iterator after the call,     *)
(* the value returned and the operations performed on the two iterators.   *)
CartesianProduct_next(self) ==
    LET s1 == IterNext(self.second)
    IN  IF s1.item # None
        THEN LET after == [self EXCEPT !.second = s1.iter]
             IN  [self |-> after,
                  ret  |-> Pair(after.saved_first, s1.item[1]),
                  ops  |-> <<"second.next">>]
        ELSE LET r == Restart([self EXCEPT !.second = s1.iter])
             IN  [self |-> r.self,
                  ret  |-> IF r.item = None THEN None
                           ELSE Pair(r.self.saved_first, r.item[1]),
                  ops  |-> <<"second.next">> \o r.ops]

InitCP ==
    /\ in1 \in Inputs
    /\ in2 \in Inputs
    /\ LET cp == cartesian_product(in1, in2)
       IN  /\ first = cp.first
           /\ saved_first = cp.saved_first
           /\ second = cp.second
           /\ second_clone = cp.second_clone
    /\ called = FALSE
    /\ ret = None
    /\ yielded = <<>>
    /\ ops = <<>>

(* One call of next by the consumer of the iterator. *)
CallNext ==
    LET r == CartesianProduct_next(self_cp)
    IN  /\ first' = r.self.first
        /\ saved_first' = r.self.saved_first
        /\ second' = r.self.second
        /\ second_clone' = r.self.second_clone
        /\ called' = TRUE
        /\ ret' = r.ret
        /\ yielded' = IF r.ret = None THEN yielded ELSE Append(yielded, r.ret[1])
        /\ ops' = r.ops
        /\ UNCHANGED <<in1, in2>>
        /\ UNCHANGED dokvars

-----------------------------------------------------------------------------
(* The sparse matrix of src/sparse.rs.                                     *)

ZERO_F64 == 0
ONE_F64 == 1

\* <f64 as Zero>::zero() and <f64 as One>::one()
zero == ZERO_F64
one == ONE_F64

\* element values: the two identities and one more value (-4.0 in the tests)
Values == {ZERO_F64, ONE_F64, -4}

\* u64 row and column indices, cut at MaxDim
Coord == 0..MaxDim
Coords == Coord \X Coord

(* CoordMap<T>: a HashMap is a function from its set of keys.              *)
EmptyMap == [k \in {} |-> zero]

insert(map, k, v) == [x \in DOMAIN map \cup {k} |-> IF x = k THEN v ELSE map[x]]

get(map, k) == IF k \in DOMAIN map THEN Some(map[k]) ELSE None

\* the mappings a caller can hand to new: at most MaxEntries entries
CoordMaps ==
    UNION {[S -> Values] : S \in {T \in SUBSET Coords : Cardinality(T) <= MaxEntries}}

\* the orders in which a HashMap may iterate over the keys S
RECURSIVE Orders(_)
Orders(S) ==
    IF S = {} THEN {<<>>}
    ELSE UNION {{<<k>> \o o : o \in Orders(S \ {k})} : k \in S}

(* DOKMatrix::new: wraps its arguments, validating nothing.                *)
new(nrows, ncols, elems) == [nrows |-> nrows, ncols |-> ncols, elems |-> elems]

(* DOKMatrix::zeros *)
zeros(nrows, ncols) == new(nrows, ncols, EmptyMap)

(* DOKMatrix::identity: for i in 0..size { map.insert((i, i), one) }.      *)
(* i < size, so i + 1 never leaves u64.                                    *)
RECURSIVE identity_loop(_, _, _)
RECURSIVE identity_loop_Inclusive(_, _, _)
\* Faulty variant of identity_loop: the range 0..=size.
identity_loop_Inclusive(map, i, size) ==
    IF i > size THEN map
    ELSE identity_loop_Inclusive(insert(map, <<i, i>>, one), i + 1, size)

identity_loop(map, i, size) ==
    IF i >= size THEN map
    ELSE identity_loop(insert(map, <<i, i>>, one), i + 1, size)

identity(size) == new(size, size, identity_loop(EmptyMap, 0, size))

(* DOKMatrix::transposed: for each entry ((i, j), v), in the order the     *)
(* HashMap iterates, map.insert((j, i), v); the shape is swapped.          *)
RECURSIVE transposed_loop(_, _, _)
RECURSIVE transposed_loop_DiagonalKey(_, _, _)
\* Faulty variant of transposed_loop: inserts at (j, j).
transposed_loop_DiagonalKey(map, elems, order) ==
    IF order = <<>> THEN map
    ELSE LET k == Head(order)
         IN  transposed_loop_DiagonalKey(insert(map, <<k[2], k[2]>>, elems[k]),
                                         elems, Tail(order))

RECURSIVE transposed_loop_NoSwap(_, _, _)
\* Faulty variant of transposed_loop: inserts at (i, j).
transposed_loop_NoSwap(map, elems, order) ==
    IF order = <<>> THEN map
    ELSE LET k == Head(order)
         IN  transposed_loop_NoSwap(insert(map, k, elems[k]), elems, Tail(order))

transposed_loop(map, elems, order) ==
    IF order = <<>> THEN map
    ELSE LET k == Head(order)
         IN  transposed_loop(insert(map, <<k[2], k[1]>>, elems[k]), elems, Tail(order))

\* Faulty variant of transposed: the shape is not swapped.
transposed_KeepsShape(self, order) ==
    new(self.nrows, self.ncols, transposed_loop(EmptyMap, self.elems, order))

transposed(self, order) ==
    new(self.ncols, self.nrows, transposed_loop(EmptyMap, self.elems, order))

(* Index::index: panics out of bounds, else the stored value or zero.      *)
Panic == [panic |-> TRUE]
Ref(v) == [panic |-> FALSE, val |-> v]

\* Faulty variant of index: > in place of >=.
index_OffByOne(self, rc) ==
    IF rc[1] > self.nrows \/ rc[2] > self.ncols
    THEN Panic
    ELSE LET elem == get(self.elems, rc)
         IN  IF elem = None THEN Ref(zero) ELSE Ref(elem[1])

\* Faulty variant of index: looks up (col, row).
index_SwappedKey(self, rc) ==
    IF rc[1] >= self.nrows \/ rc[2] >= self.ncols
    THEN Panic
    ELSE LET elem == get(self.elems, <<rc[2], rc[1]>>)
         IN  IF elem = None THEN Ref(zero) ELSE Ref(elem[1])

index(self, rc) ==
    IF rc[1] >= self.nrows \/ rc[2] >= self.ncols
    THEN Panic
    ELSE LET elem == get(self.elems, rc)
         IN  IF elem = None THEN Ref(zero) ELSE Ref(elem[1])

NoIndex == [rc |-> <<0, 0>>, res |-> Panic, made |-> FALSE]

\* the constructor call that built the matrix (identity: nrows = ncols = size)
Call(name, nrows, ncols, elems) ==
    [name |-> name, nrows |-> nrows, ncols |-> ncols, elems |-> elems]

Constructed(matrix, call) ==
    /\ ctor = call
    /\ mat = matrix
    /\ orig = matrix
    /\ recv = matrix
    /\ ntransposed = 0
    /\ last = call.name
    /\ idx = NoIndex

(* The caller holds a matrix built by one of the three constructors.       *)
InitDOK ==
    \/ \E nrows \in Coord, ncols \in Coord, elems \in CoordMaps :
           Constructed(new(nrows, ncols, elems), Call("new", nrows, ncols, elems))
    \/ \E nrows \in Coord, ncols \in Coord :
           Constructed(zeros(nrows, ncols), Call("zeros", nrows, ncols, EmptyMap))
    \/ \E size \in Coord :
           Constructed(identity(size), Call("identity", size, size, EmptyMap))

(* mat = mat.transposed(): the receiver is borrowed immutably.             *)
Transposed ==
    /\ ntransposed < MaxTransposes
    /\ \E order \in Orders(DOMAIN mat.elems) :
           mat' = transposed(mat, order)
    /\ recv' = mat
    /\ ntransposed' = ntransposed + 1
    /\ last' = "transposed"
    /\ idx' = NoIndex
    /\ UNCHANGED <<ctor, orig>>
    /\ UNCHANGED cpvars

(* mat[(row, col)]: the receiver is borrowed immutably.                    *)
Index ==
    /\ \E rc \in Coords :
           idx' = [rc |-> rc, res |-> index(mat, rc), made |-> TRUE]
    /\ recv' = mat
    /\ last' = "index"
    /\ UNCHANGED <<ctor, mat, orig, ntransposed>>
    /\ UNCHANGED cpvars

-----------------------------------------------------------------------------
(* Spec: the iterator, beside a matrix that is never used.                 *)
(* SpecDOK: the matrix, beside an iterator that is never used.             *)

IdleCP ==
    /\ in1 = <<>> /\ in2 = <<>>
    /\ first = <<>> /\ saved_first = None
    /\ second = <<>> /\ second_clone = <<>>
    /\ called = FALSE /\ ret = None /\ yielded = <<>> /\ ops = <<>>

IdleDOK == Constructed(zeros(0, 0), Call("zeros", 0, 0, EmptyMap))

Init == InitCP /\ IdleDOK

Next == CallNext

Spec == Init /\ [][Next]_vars

InitM == IdleCP /\ InitDOK

NextDOK == Transposed \/ Index

SpecDOK == InitM /\ [][NextDOK]_vars

-----------------------------------------------------------------------------
(* Properties of the Cartesian product.                                    *)

m == Len(in1)
n == Len(in2)

\* the k-th pair (k from 0) of the row-major enumeration of in1 x in2
RowMajor(k) == <<in1[(k \div n) + 1], in2[(k % n) + 1]>>

\* number of occurrences of op in a sequence of operations
Count(s, op) == Cardinality({i \in 1..Len(s) : s[i] = op})

\* C1: the calls of next yield exactly m*n pairs before the first None, and
\* the k-th pair (k from 0) is (first[k div n], second[k mod n]).
C1_RowMajorOrder ==
    /\ Len(yielded) <= m * n
    /\ \A k \in 0..(Len(yielded) - 1) : yielded[k + 1] = RowMajor(k)
    /\ (called /\ ret = None) => Len(yielded) = m * n
    /\ ret # None => ret = Some(yielded[Len(yielded)])

C1_Witness ==
    /\ m >= 2 /\ n >= 2
    /\ in1[1] # in1[2] /\ in2[1] # in2[2]
    /\ called /\ ret = None
    /\ Len(yielded) = m * n

\* C2: if either input sequence is empty, every call of next, the very first
\* included, returns None and no pair is ever yielded.
C2_EmptyInputYieldsNothing ==
    (in1 = <<>> \/ in2 = <<>>) =>
        /\ ret = None
        /\ yielded = <<>>

C2_Witness ==
    /\ in1 = <<>> /\ in2 # <<>>
    /\ called /\ ret = None
    /\ second = Tail(in2)

\* C8: once a call of next has returned None, every later call returns None.
C8_SinglePass == [][(called /\ ret = None) => ret' = None]_vars

\* two calls on (empty, two items): both found an inner item, both gave None
C8_Witness ==
    /\ in1 = <<>> /\ Len(in2) = 2
    /\ second = <<>>
    /\ called /\ ret = None

\* C9 as stated: every call that finds the inner iterator exhausted resets
\* it, advances the outer iterator once and advances the reset inner iterator
\* once; a call that finds it non-exhausted leaves the outer iterator and the
\* current outer item untouched.
C9_AsStated ==
    [][ /\ second = <<>> =>
             /\ Count(ops', "reset") = 1
             /\ Count(ops', "first.next") = 1
             /\ Count(ops', "second.next") = 2
        /\ second # <<>> => (first' = first /\ saved_first' = saved_first)
      ]_vars

\* C9 amended: a call that finds the inner iterator exhausted resets it and
\* advances the reset iterator once; the outer iterator is advanced (once,
\* giving the new current outer item) only if that advance gave an item, and
\* with an empty second sequence the outer iterator and the current outer
\* item are untouched; so are they on a call that finds the inner iterator
\* non-exhausted.
C9_RestartStep ==
    [][ /\ (second = <<>> /\ second_clone # <<>>) =>
             /\ ops' = <<"second.next", "reset", "second.next", "first.next">>
             /\ second' = Tail(second_clone)
             /\ first' = IterNext(first).iter
             /\ saved_first' = IterNext(first).item
        /\ (second = <<>> /\ second_clone = <<>>) =>
             /\ ops' = <<"second.next", "reset", "second.next">>
             /\ second' = <<>>
             /\ first' = first /\ saved_first' = saved_first
        /\ second # <<>> =>
             /\ ops' = <<"second.next">>
             /\ first' = first /\ saved_first' = saved_first
      ]_vars

\* the inner sequence is empty, the outer is not: the call reset the inner
\* iterator and kept the outer item taken at construction
C9_Witness ==
    /\ in2 = <<>> /\ Len(in1) >= 2
    /\ ops = <<"second.next", "reset", "second.next">>
    /\ saved_first = Some(in1[1])
    /\ first = Tail(in1)

-----------------------------------------------------------------------------
(* Properties of the sparse matrix.                                        *)

InBounds(matrix, rc) == rc[1] < matrix.nrows /\ rc[2] < matrix.ncols

\* every stored coordinate lies within the shape
WellFormed(matrix) == \A k \in DOMAIN matrix.elems : InBounds(matrix, k)

Swap(rc) == <<rc[2], rc[1]>>

\* C3: index access at (row, col) fails with the out-of-bounds condition if
\* and only if row >= nrows or col >= ncols, also when the mapping holds an
\* entry at that coordinate.
C3_OutOfBoundsIff ==
    idx.made =>
        (idx.res = Panic <=> (idx.rc[1] >= mat.nrows \/ idx.rc[2] >= mat.ncols))

\* a matrix built by new with an entry outside its shape, read at that entry
C3_Witness ==
    /\ idx.made
    /\ ctor.name = "new" /\ ntransposed = 0
    /\ idx.rc \in DOMAIN mat.elems
    /\ idx.rc[1] < mat.nrows /\ idx.rc[2] >= mat.ncols
    /\ idx.res = Panic

\* C4: index access at an in-bounds coordinate returns the stored value if
\* the mapping has one and zero otherwise, and leaves the matrix as it was;
\* an empty mapping reads zero everywhere and a stored zero reads as absent.
C4_InBoundsRead ==
    (idx.made /\ InBounds(mat, idx.rc)) =>
        /\ idx.rc \in DOMAIN mat.elems => idx.res = Ref(mat.elems[idx.rc])
        /\ idx.rc \notin DOMAIN mat.elems => idx.res = Ref(zero)
        /\ DOMAIN mat.elems = {} => idx.res = Ref(zero)
        /\ last = "index" => recv = mat
        /\ ntransposed = 0 => mat = orig

\* a stored value other than zero, read back at a coordinate off the diagonal
C4_Witness ==
    /\ idx.made /\ InBounds(mat, idx.rc)
    /\ idx.rc[1] # idx.rc[2]
    /\ idx.rc \in DOMAIN mat.elems
    /\ mat.elems[idx.rc] # zero
    /\ idx.res = Ref(mat.elems[idx.rc])

\* C5: identity(size) is a size x size matrix whose mapping holds exactly
\* (i, i) -> one for 0 <= i < size; it reads one on the diagonal and zero at
\* every other in-bounds coordinate.
C5_Identity ==
    ctor.name = "identity" =>
        LET size == ctor.nrows
        IN  /\ orig.nrows = size /\ orig.ncols = size
            /\ DOMAIN orig.elems = {<<i, i>> : i \in 0..(size - 1)}
            /\ \A k \in DOMAIN orig.elems : orig.elems[k] = one
            /\ \A rc \in Coords :
                   InBounds(orig, rc) =>
                       index(orig, rc) = Ref(IF rc[1] = rc[2] THEN one ELSE zero)
            /\ (idx.made /\ ntransposed = 0 /\ InBounds(orig, idx.rc)) =>
                   idx.res = Ref(IF idx.rc[1] = idx.rc[2] THEN one ELSE zero)

C5_Witness ==
    /\ ctor.name = "identity" /\ ctor.nrows = MaxDim
    /\ ntransposed = 0
    /\ idx.made /\ idx.rc = <<MaxDim - 1, MaxDim - 1>>
    /\ idx.res = Ref(one)

\* C6: m.transposed() has the shape of m swapped and holds (col, row) -> v
\* exactly for each entry (row, col) -> v of m, so it reads at (col, row)
\* what m reads at (row, col); m is unchanged by the call.
C6_Transposed ==
    last = "transposed" =>
        /\ mat.nrows = recv.ncols /\ mat.ncols = recv.nrows
        /\ DOMAIN mat.elems = {Swap(k) : k \in DOMAIN recv.elems}
        /\ \A k \in DOMAIN recv.elems : mat.elems[Swap(k)] = recv.elems[k]
        /\ \A rc \in Coords :
               InBounds(recv, rc) => index(mat, Swap(rc)) = index(recv, rc)
        /\ ntransposed = 1 => recv = orig

\* a non-square matrix with a non-zero entry off the diagonal, transposed
C6_Witness ==
    /\ last = "transposed" /\ ntransposed = 1
    /\ recv.nrows # recv.ncols
    /\ \E k \in DOMAIN recv.elems :
           /\ k[1] # k[2] /\ InBounds(recv, k)
           /\ recv.elems[k] # zero
           /\ mat.elems[Swap(k)] = recv.elems[k]

\* C7: for a matrix m of any shape and any mapping, m.transposed().transposed()
\* has the rows, the columns and the mapping of m.
C7_Involution ==
    ntransposed = 2 =>
        /\ mat.nrows = orig.nrows
        /\ mat.ncols = orig.ncols
        /\ mat.elems = orig.elems
        /\ \A rc \in Coords : index(mat, rc) = index(orig, rc)

\* a non-square matrix built by new with an entry outside its shape
C7_Witness ==
    /\ ntransposed = 2 /\ last = "transposed"
    /\ ctor.name = "new"
    /\ orig.nrows # orig.ncols
    /\ \E k \in DOMAIN orig.elems : ~InBounds(orig, k) /\ k[1] # k[2]
    /\ mat = orig

\* C10: zeros and identity build well-formed matrices, and a well-formed
\* matrix transposed any number of times is well-formed in its own shape,
\* has as many entries as before, and every entry is read by index access.
C10_WellFormedPreserved ==
    /\ ctor.name \in {"zeros", "identity"} => WellFormed(orig)
    /\ WellFormed(orig) =>
           /\ WellFormed(mat)
           /\ Cardinality(DOMAIN mat.elems) = Cardinality(DOMAIN orig.elems)
           /\ last = "transposed" =>
                  Cardinality(DOMAIN mat.elems) = Cardinality(DOMAIN recv.elems)
           /\ \A k \in DOMAIN mat.elems : index(mat, k) = Ref(mat.elems[k])

\* a non-square well-formed matrix with an entry, transposed as often as the
\* bound allows
C10_Witness ==
    /\ ntransposed = MaxTransposes
    /\ ctor.name = "new"
    /\ WellFormed(orig) /\ DOMAIN orig.elems # {}
    /\ orig.nrows # orig.ncols
    /\ WellFormed(mat)

=============================================================================
